---- MODULE Spec2Model ----
(***************************************************************************)
(* Model of app/main.py: a LINE webhook bot that keeps, per user, a        *)
(* bounded conversation history in Firestore, sends it to a chat           *)
(* completion API and relays the answer.                                   *)
(*                                                                         *)
(* Strings are sequences of one-character strings, so that str.strip(),    *)
(* str.lower() and string equality are computed, not assumed.  Each fixed  *)
(* Japanese message of the source is one opaque, non-empty token.          *)
(* Several handler invocations may be in flight at once (one per webhook   *)
(* request; the hosting layer may run several workers or instances on the  *)
(* one shared Firestore); every store, completion and reply call is one    *)
(* atomic step and a possible interleaving point.                          *)
(* The state modelled is the one after initialize_clients() succeeded      *)
(* (lines 83-86 exit otherwise): handler, line_bot_api, openai_client and  *)
(* db are all set, so the "if not db" / "if not line_bot_api" /            *)
(* "if not openai_client" early returns are never taken.                   *)
(***************************************************************************)
EXTENDS Integers, Sequences, FiniteSets, TLC

VARIABLES
    store,      \* Firestore collection 'conversations': user_id -> document
    pc,         \* position of each handler invocation
    frame,      \* the locals of each handler invocation
    obs,        \* per invocation: what it has done so far (observation only)
    lastWrite,  \* per user: the last successful write of the program to the document
    events      \* number of webhook events received so far

vars == <<store, pc, frame, obs, lastWrite, events>>

----------------------------------------------------------------------------
(* Bounds of the model *)

\* webhook events received in one behaviour
MaxEvents == 2

\* handler invocations that can be in flight at the same time
Procs == {1, 2}

\* users that send events
Users == {"u1", "u2"}

----------------------------------------------------------------------------
(* Constants of the program *)

MAX_HISTORY_PAIRS == 10

\* "リセット", one token per character
RESET_COMMAND == <<"ri", "se", "tsu", "to">>

DEFAULT_SYSTEM_PROMPT == <<"DEFAULT_SYSTEM_PROMPT">>

\* the fixed texts of handle_message and get_openai_response
RESET_DONE_TEXT == <<"RESET_DONE_TEXT">>
CANNOT_RESPOND_TEXT == <<"CANNOT_RESPOND_TEXT">>
AUTH_FAILED_TEXT == <<"AUTH_FAILED_TEXT">>
RATE_LIMIT_TEXT == <<"RATE_LIMIT_TEXT">>
UNEXPECTED_ERROR_TEXT == <<"UNEXPECTED_ERROR_TEXT">>
WELCOME_TEXT == <<"WELCOME_TEXT_HEAD">> \o RESET_COMMAND \o <<"WELCOME_TEXT_TAIL">>

\* f"AIサービスでエラーが発生しました (エラーコード: {e.status_code})。"
ApiErrorText(status_code) == <<"API_ERROR_TEXT_HEAD", status_code, "API_ERROR_TEXT_TAIL">>

----------------------------------------------------------------------------
(* Python strings and lists *)

Whitespace == {" ", "\n"}

RECURSIVE LStrip(_)
LStrip(s) == IF s # <<>> /\ Head(s) \in Whitespace THEN LStrip(Tail(s)) ELSE s

RECURSIVE RStrip(_)
RStrip(s) ==
    IF s # <<>> /\ s[Len(s)] \in Whitespace THEN RStrip(SubSeq(s, 1, Len(s) - 1)) ELSE s

\* str.strip()
Strip(s) == RStrip(LStrip(s))

\* str.lower() on one character: the cased letters of the model's alphabet
LowerChar(c) ==
    CASE c = "H" -> "h"
      [] c = "O" -> "o"
      [] OTHER -> c

\* str.lower()
Lower(s) == [i \in 1..Len(s) |-> LowerChar(s[i])]

\* a test for None in place of the test for truth
TruthyAlways(s) == TRUE

\* bool(s) of a string
Truthy(s) == s # <<>>

\* lst[:], the whole list
PySliceNone(lst, k) == lst

\* lst[:k]
PySliceFirst(lst, k) == IF Len(lst) <= k THEN lst ELSE SubSeq(lst, 1, k)

\* lst[-k:]
PySliceLast(lst, k) ==
    IF k = 0 \/ Len(lst) <= k THEN lst ELSE SubSeq(lst, Len(lst) - k + 1, Len(lst))

----------------------------------------------------------------------------
(* Conversation turns and Firestore documents *)

Message(role, content) == [role |-> role, content |-> content]

\* a field value that is a list, and one that is not
ListValue(items) == [kind |-> "list", items |-> items]
NotAList == [kind |-> "str", items |-> <<>>]

IsList(value) == value.kind = "list"

NoFields == [k \in {} |-> NotAList]

\* doc_ref.get() of a document that does not exist
AbsentDoc == [exists |-> FALSE, fields |-> NoFields]

\* doc_ref.set(update) without merge: the document holds the fields of update
SetReplace(doc, update) ==
    [exists |-> TRUE, fields |-> update]

\* doc_ref.set(update, merge=True): creates the document when absent, replaces
\* the fields of update and keeps the others
SetMerge(doc, update) ==
    [exists |-> TRUE,
     fields |-> [k \in DOMAIN doc.fields \cup DOMAIN update |->
                    IF k \in DOMAIN update THEN update[k] ELSE doc.fields[k]]]

\* doc.to_dict().get(key, default)
DictGet(doc, key, default) ==
    IF key \in DOMAIN doc.fields THEN doc.fields[key] ELSE default

MessagesUpdate(items) == [k \in {"messages"} |-> ListValue(items)]

----------------------------------------------------------------------------
(* The functions of the program, as functions of what the store holds *)

\* a read that returns [] for a value that is no list and leaves it stored
ReadHistoryNoHeal(doc) ==
    IF doc.exists
    THEN LET history == DictGet(doc, "messages", ListValue(<<>>))
         IN  IF IsList(history)
             THEN [ret |-> PySliceLast(history.items, MAX_HISTORY_PAIRS * 2), heal |-> FALSE]
             ELSE [ret |-> <<>>, heal |-> FALSE]
    ELSE [ret |-> <<>>, heal |-> FALSE]

\* a read that tests the value for truth as well: an empty list is reset too
ReadHistoryHealEmpty(doc) ==
    IF doc.exists
    THEN LET history == DictGet(doc, "messages", ListValue(<<>>))
         IN  IF IsList(history) /\ history.items # <<>>
             THEN [ret |-> PySliceLast(history.items, MAX_HISTORY_PAIRS * 2), heal |-> FALSE]
             ELSE [ret |-> <<>>, heal |-> TRUE]
    ELSE [ret |-> <<>>, heal |-> FALSE]

\* get_conversation_history, lines 105-115: what it makes of the document
\* it has read.  heal: it goes on to call reset_conversation_history.
ReadHistory(doc) ==
    IF doc.exists
    THEN LET history == DictGet(doc, "messages", ListValue(<<>>))
         IN  IF IsList(history)
             THEN [ret |-> PySliceLast(history.items, MAX_HISTORY_PAIRS * 2), heal |-> FALSE]
             ELSE [ret |-> <<>>, heal |-> TRUE]
    ELSE [ret |-> <<>>, heal |-> FALSE]

\* a save that keeps one entry less than the bound
SaveOffByOne(doc, history) ==
    SetMerge(doc, MessagesUpdate(PySliceLast(history, MAX_HISTORY_PAIRS * 2 - 1)))

\* a save that stores the history as it is given
SaveUnlimited(doc, history) == SetMerge(doc, MessagesUpdate(history))

\* a save that appends the turn to what the document holds now
SaveAppending(doc, history) ==
    LET held == DictGet(doc, "messages", ListValue(<<>>)).items
        turn == PySliceLast(history, 2)
    IN  SetMerge(doc, MessagesUpdate(PySliceLast(held \o turn, MAX_HISTORY_PAIRS * 2)))

\* save_conversation_history: the document after a successful call
save_conversation_history(doc, history) ==
    LET limited_history == PySliceLast(history, MAX_HISTORY_PAIRS * 2)
    IN  SetMerge(doc, MessagesUpdate(limited_history))

\* a reset that keeps the last pair of the history
ResetKeepsLastPair(doc) ==
    LET held == DictGet(doc, "messages", ListValue(<<>>)).items
    IN  SetMerge(doc, MessagesUpdate(PySliceLast(held, 2)))

\* a reset that creates the document and leaves its fields alone
ResetKeepsMessages(doc) == SetMerge(doc, NoFields)

\* reset_conversation_history: the document after a successful call
reset_conversation_history(doc) == SetMerge(doc, MessagesUpdate(<<>>))

\* the messages list get_openai_response sends
OpenAIMessages(history) == <<Message("system", DEFAULT_SYSTEM_PROMPT)>> \o history

\* get_openai_response, lines 150-167, by the outcome of the API call.
\*   ok        the call returns; content is response.choices[0].message.content
\*   auth      AuthenticationError
\*   rate      RateLimitError
\*   api       an APIError that carries status_code
\*   api_bare  an APIError without a status_code attribute (a connection error
\*             or timeout): the f-string of line 165 raises AttributeError inside
\*             the except clause, which no later clause of the try catches
\*   other     any other exception (also content None, whose .strip() raises)
get_openai_response(outcome) ==
    CASE outcome.kind = "ok" -> [raised |-> FALSE, value |-> Strip(outcome.content)]
      [] outcome.kind = "auth" -> [raised |-> FALSE, value |-> AUTH_FAILED_TEXT]
      [] outcome.kind = "rate" -> [raised |-> FALSE, value |-> RATE_LIMIT_TEXT]
      [] outcome.kind = "api" -> [raised |-> FALSE, value |-> ApiErrorText(outcome.status_code)]
      [] outcome.kind = "api_bare" -> [raised |-> TRUE, value |-> <<>>]
      [] OTHER -> [raised |-> FALSE, value |-> UNEXPECTED_ERROR_TEXT]

\* a test for the keyword anywhere in the text
IsResetCommandContains(user_message_text) ==
    LET t == Lower(Strip(user_message_text))
        k == Lower(RESET_COMMAND)
    IN  \E i \in 1..Len(t) :
            i + Len(k) - 1 <= Len(t) /\ SubSeq(t, i, i + Len(k) - 1) = k

\* a comparison of the text as it was sent
IsResetCommandNoStrip(user_message_text) ==
    Lower(user_message_text) = Lower(RESET_COMMAND)

\* handle_message, line 232
IsResetCommand(user_message_text) ==
    Lower(Strip(user_message_text)) = Lower(RESET_COMMAND)

\* handle_message, line 239
AppendUser(history, user_message_text) ==
    Append(history, Message("user", user_message_text))

\* an assistant turn put in front of the history
AppendAssistantFirst(history, ai_response) ==
    <<Message("assistant", ai_response)>> \o history

\* handle_message, line 242
AppendAssistant(history, ai_response) ==
    Append(history, Message("assistant", ai_response))

----------------------------------------------------------------------------
(* Inputs *)

\* texts a user sends: the reset keyword, the keyword inside whitespace, and
\* a text that holds the keyword after other words
Texts ==
    { RESET_COMMAND,
      <<" ", "ri", "se", "tsu", "to", "\n">>,
      <<"H", "i", " ", "ri", "se", "tsu", "to">> }

\* what can stand before and after the middle of a text: nothing, whitespace,
\* other text
Pads == { <<>>, <<" ">>, <<"\n", " ">>, <<"!">> }

\* the middle of a text: the keyword, a part of it, nothing, the keyword with
\* whitespace inside, a word with cased letters
Cores ==
    { RESET_COMMAND,
      <<"ri", "se", "tsu">>,
      <<>>,
      <<"ri", "se", " ", "tsu", "to">>,
      <<"H", "O">> }

\* texts for the choice of the path alone
DispatchTexts == { pre \o core \o post : pre \in Pads, core \in Cores, post \in Pads }

\* what the completion API does in a turn: a text, a text of whitespace only,
\* a failure answered by a fixed text (rate limiting; the authentication and
\* the catch-all clause have the same shape), one answered by a formatted text,
\* and one whose clause raises
CompletionOutcomes ==
    { [kind |-> "ok", content |-> <<" ", "O", "k", "\n">>, status_code |-> "-"],
      [kind |-> "ok", content |-> <<" ">>, status_code |-> "-"],
      [kind |-> "rate", content |-> <<>>, status_code |-> "-"],
      [kind |-> "api", content |-> <<>>, status_code |-> "500"],
      [kind |-> "api_bare", content |-> <<>>, status_code |-> "-"] }

CompletionFailed(kind) == kind \in {"auth", "rate", "api", "api_bare", "other"}

\* an earlier turn: number i of a stored history
Numeral ==
    <<"1", "2", "3", "4", "5", "6", "7", "8", "9", "10", "11", "12",
      "13", "14", "15", "16", "17", "18", "19", "20", "21", "22">>

OldMessage(i) ==
    Message(IF i % 2 = 1 THEN "user" ELSE "assistant", <<"old", Numeral[i]>>)

OldHistory(n) == [i \in 1..n |-> OldMessage(i)]

\* another field of a user's document, not written by this program
OtherField == [kind |-> "str", items |-> <<"profile">>]

DocWith(messages) ==
    [exists |-> TRUE,
     fields |-> [k \in {"messages", "profile"} |->
                    IF k = "messages" THEN messages ELSE OtherField]]

\* the documents a user can have when the program starts serving: none; one
\* without a messages field; an empty and a full history; a history longer
\* than the bound and a messages value that is no list (both left by another
\* writer of the collection: lines 107-112 provide for them)
InitialDocs ==
    { AbsentDoc,
      [exists |-> TRUE, fields |-> [k \in {"profile"} |-> OtherField]],
      DocWith(ListValue(<<>>)),
      DocWith(ListValue(OldHistory(MAX_HISTORY_PAIRS * 2))),
      DocWith(ListValue(OldHistory(MAX_HISTORY_PAIRS * 2 + 2))),
      DocWith(NotAList) }

----------------------------------------------------------------------------
(* Handler invocations *)

Resting == {"idle", "done", "raised"}

Active(q) == pc[q] \notin Resting

NoFrame ==
    [user_id |-> "-", user_message_text |-> <<>>, history |-> <<>>,
     ai_response |-> <<>>, reply_text |-> <<>>]

NewFrame(u, text) == [NoFrame EXCEPT !.user_id = u, !.user_message_text = text]

\* what an invocation has done: the event and path it handles, the user's
\* document when it started, what its read found and returned, the completion
\* outcome and prompt, its calls, and whether another invocation for the same
\* user was in flight at any time during it, and whether a reset turn of the
\* same user sent its confirmation during it
NoObs ==
    [kind |-> "none", path |-> "none", before |-> AbsentDoc, read |-> "none",
     fetched |-> <<>>, afterReset |-> FALSE, gen |-> "none", prompt |-> <<>>,
     nReads |-> 0, nWrites |-> 0, nSaves |-> 0, nResets |-> 0,
     nCompletions |-> 0, nReplies |-> 0, delivered |-> <<>>, overlap |-> FALSE,
     resetDuring |-> FALSE]

SameUserActive(p, u) == \E q \in Procs \ {p} : Active(q) /\ frame[q].user_id = u

\* The invocations are interchangeable: an event goes to the first one free.
FirstFree(p) == pc[p] \in Resting /\ \A q \in Procs : q < p => Active(q)

\* The users are interchangeable (they start with the same document): the
\* first event is u1's.
Senders == IF events = 0 THEN {"u1"} ELSE Users

\* The locals of an invocation that has returned or raised are gone.  The
\* model keeps them, and what the invocation did, in the one state that
\* follows its last step; the next step of any invocation drops them.
StepPc(p, at) ==
    [q \in Procs |-> IF q = p THEN at ELSE IF Active(q) THEN pc[q] ELSE "idle"]

StepFrame(p, f) ==
    [q \in Procs |-> IF q = p THEN f ELSE IF Active(q) THEN frame[q] ELSE NoFrame]

StepObs(p, o) ==
    [q \in Procs |-> IF q = p THEN o ELSE IF Active(q) THEN obs[q] ELSE NoObs]

\* obs after invocation p starts on an event of user u
BeginObs(p, u, kind, path) ==
    [q \in Procs |->
        IF q = p
        THEN [NoObs EXCEPT !.kind = kind, !.path = path, !.before = store[u],
                           !.overlap = SameUserActive(p, u)]
        ELSE IF ~Active(q) THEN NoObs
        ELSE IF frame[q].user_id = u THEN [obs[q] EXCEPT !.overlap = TRUE]
        ELSE obs[q]]

Init ==
    /\ \E doc \in InitialDocs : store = [u \in Users |-> doc]
    /\ pc = [p \in Procs |-> "idle"]
    /\ frame = [p \in Procs |-> NoFrame]
    /\ obs = [p \in Procs |-> NoObs]
    /\ lastWrite = [u \in Users |-> "none"]
    /\ events = 0

\* callback dispatches a text message event to handle_message, which reads
\* the event and takes the reset or the conversation path (lines 227-238)
ReceiveMessage(p) ==
    /\ FirstFree(p)
    /\ events < MaxEvents
    /\ \E u \in Senders, text \in Texts :
          LET reset == IsResetCommand(text)
          IN  /\ frame' = StepFrame(p, NewFrame(u, text))
              /\ pc' = StepPc(p, IF reset THEN "reset" ELSE "fetch")
              /\ obs' = BeginObs(p, u, "message", IF reset THEN "reset" ELSE "conversation")
    /\ events' = events + 1
    /\ UNCHANGED <<store, lastWrite>>

\* the same entry of handle_message (lines 227-238) on the texts of
\* DispatchTexts, for the choice of the path alone
DispatchMessage(p) ==
    /\ FirstFree(p)
    /\ events < MaxEvents
    /\ \E text \in DispatchTexts :
          LET u == "u1"
              reset == IsResetCommand(text)
          IN  /\ frame' = StepFrame(p, NewFrame(u, text))
              /\ pc' = StepPc(p, IF reset THEN "reset" ELSE "fetch")
              /\ obs' = BeginObs(p, u, "message", IF reset THEN "reset" ELSE "conversation")
    /\ events' = events + 1
    /\ UNCHANGED <<store, lastWrite>>

\* reset path, lines 233-234: reset_conversation_history, which re-raises a
\* failure of the write (lines 139-140); handle_message does not catch it
ResetCall(p) ==
    /\ pc[p] = "reset"
    /\ LET u == frame[p].user_id
       IN  \/ /\ store' = [store EXCEPT ![u] = reset_conversation_history(store[u])]
              /\ lastWrite' = [lastWrite EXCEPT ![u] = "reset"]
              /\ frame' = StepFrame(p, [frame[p] EXCEPT !.reply_text = RESET_DONE_TEXT])
              /\ obs' = StepObs(p, [obs[p] EXCEPT !.nWrites = @ + 1, !.nResets = @ + 1])
              /\ pc' = StepPc(p, "reply")
           \/ /\ obs' = StepObs(p, [obs[p] EXCEPT !.nResets = @ + 1])
              /\ pc' = StepPc(p, "raised")
              /\ frame' = StepFrame(p, frame[p])
              /\ UNCHANGED <<store, lastWrite>>
    /\ UNCHANGED events

\* get_conversation_history, lines 103-117: the document read.  A failed read
\* returns []; a messages value that is no list leads to the reset call.
\* With the history returned, handle_message appends the user turn (line 239).
Fetch(p) ==
    /\ pc[p] = "fetch"
    /\ LET u == frame[p].user_id
           r == ReadHistory(store[u])
           found == IF ~store[u].exists THEN "absent"
                    ELSE IF IsList(DictGet(store[u], "messages", ListValue(<<>>)))
                    THEN "list" ELSE "malformed"
           seen == [obs[p] EXCEPT !.nReads = @ + 1,
                                  !.afterReset = (lastWrite[u] = "reset")]
       IN  \/ /\ ~r.heal
              /\ frame' = StepFrame(p, [frame[p] EXCEPT !.history =
                              AppendUser(r.ret, frame[p].user_message_text)])
              /\ obs' = StepObs(p, [seen EXCEPT !.read = found, !.fetched = r.ret])
              /\ pc' = StepPc(p, "generate")
           \/ /\ r.heal
              /\ frame' = StepFrame(p, frame[p])
              /\ obs' = StepObs(p, [seen EXCEPT !.read = found])
              /\ pc' = StepPc(p, "heal")
           \/ /\ frame' = StepFrame(p, [frame[p] EXCEPT !.history =
                              AppendUser(<<>>, frame[p].user_message_text)])
              /\ obs' = StepObs(p, [seen EXCEPT !.read = "failed", !.fetched = <<>>])
              /\ pc' = StepPc(p, "generate")
    /\ UNCHANGED <<store, lastWrite, events>>

\* the reset of a malformed value with its failure left to the caller
HealRaising(p) ==
    /\ pc[p] = "heal"
    /\ LET u == frame[p].user_id
       IN  \/ /\ store' = [store EXCEPT ![u] = reset_conversation_history(store[u])]
              /\ lastWrite' = [lastWrite EXCEPT ![u] = "reset"]
              /\ obs' = StepObs(p, [obs[p] EXCEPT !.nWrites = @ + 1, !.nResets = @ + 1,
                                                 !.fetched = <<>>])
              /\ frame' = StepFrame(p, [frame[p] EXCEPT !.history =
                              AppendUser(<<>>, frame[p].user_message_text)])
              /\ pc' = StepPc(p, "generate")
           \/ /\ obs' = StepObs(p, [obs[p] EXCEPT !.nResets = @ + 1])
              /\ frame' = StepFrame(p, frame[p])
              /\ pc' = StepPc(p, "raised")
              /\ UNCHANGED <<store, lastWrite>>
    /\ UNCHANGED events

\* get_conversation_history, lines 110-112 and 116-117: the reset of a
\* malformed value; its re-raised failure is caught by line 116.  Either way
\* [] is returned and handle_message appends the user turn (line 239).
Heal(p) ==
    /\ pc[p] = "heal"
    /\ LET u == frame[p].user_id
       IN  \/ /\ store' = [store EXCEPT ![u] = reset_conversation_history(store[u])]
              /\ lastWrite' = [lastWrite EXCEPT ![u] = "reset"]
              /\ obs' = StepObs(p, [obs[p] EXCEPT !.nWrites = @ + 1, !.nResets = @ + 1,
                                                 !.fetched = <<>>])
           \/ /\ obs' = StepObs(p, [obs[p] EXCEPT !.nResets = @ + 1, !.fetched = <<>>])
              /\ UNCHANGED <<store, lastWrite>>
    /\ frame' = StepFrame(p, [frame[p] EXCEPT !.history =
                    AppendUser(<<>>, frame[p].user_message_text)])
    /\ pc' = StepPc(p, "generate")
    /\ UNCHANGED events

\* lines 240-246: get_openai_response(history), then the branch on its result
Generate(p) ==
    /\ pc[p] = "generate"
    /\ \E outcome \in CompletionOutcomes :
          LET result == get_openai_response(outcome)
              ai_response == result.value
          IN  /\ obs' = StepObs(p, [obs[p] EXCEPT !.nCompletions = @ + 1,
                                       !.gen = outcome.kind,
                                       !.prompt = OpenAIMessages(frame[p].history)])
              /\ IF result.raised
                 THEN /\ pc' = StepPc(p, "raised")
                      /\ frame' = StepFrame(p, frame[p])
                 ELSE IF Truthy(ai_response)
                 THEN /\ frame' = StepFrame(p, [frame[p] EXCEPT
                              !.ai_response = ai_response,
                              !.history = AppendAssistant(@, ai_response)])
                      /\ pc' = StepPc(p, "save")
                 ELSE /\ frame' = StepFrame(p, [frame[p] EXCEPT
                              !.ai_response = ai_response,
                              !.reply_text = CANNOT_RESPOND_TEXT])
                      /\ pc' = StepPc(p, "reply")
    /\ UNCHANGED <<store, lastWrite, events>>

\* lines 243-244: save_conversation_history, which re-raises a failure of the
\* write (lines 128-129); handle_message does not catch it
Save(p) ==
    /\ pc[p] = "save"
    /\ LET u == frame[p].user_id
       IN  \/ /\ store' = [store EXCEPT ![u] =
                              save_conversation_history(store[u], frame[p].history)]
              /\ lastWrite' = [lastWrite EXCEPT ![u] = "save"]
              /\ frame' = StepFrame(p, [frame[p] EXCEPT !.reply_text = frame[p].ai_response])
              /\ obs' = StepObs(p, [obs[p] EXCEPT !.nWrites = @ + 1, !.nSaves = @ + 1])
              /\ pc' = StepPc(p, "reply")
           \/ /\ obs' = StepObs(p, [obs[p] EXCEPT !.nSaves = @ + 1])
              /\ pc' = StepPc(p, "raised")
              /\ frame' = StepFrame(p, frame[p])
              /\ UNCHANGED <<store, lastWrite>>
    /\ UNCHANGED events

\* invocation p handles a text message on the conversation path
ConversationTurn(p) == obs[p].kind = "message" /\ obs[p].path = "conversation"

\* invocation p handles a text message on the reset path
ResetTurn(p) == obs[p].kind = "message" /\ obs[p].path = "reset"

\* obs o, with the delivery of the confirmation of reset turn p noted for the
\* other invocations of its user that are in flight
NoteReset(p, o) ==
    [q \in Procs |->
        IF /\ ResetTurn(p)
           /\ q # p
           /\ Active(q)
           /\ frame[q].user_id = frame[p].user_id
        THEN [o[q] EXCEPT !.resetDuring = TRUE]
        ELSE o[q]]

\* lines 252-260: line_bot_api.reply_message; a failure is caught and printed
Reply(p) ==
    /\ pc[p] = "reply"
    /\ \/ obs' = NoteReset(p, StepObs(p, [obs[p] EXCEPT !.nReplies = @ + 1,
                                                       !.delivered = frame[p].reply_text]))
       \/ obs' = StepObs(p, [obs[p] EXCEPT !.nReplies = @ + 1])
    /\ pc' = StepPc(p, "done")
    /\ frame' = StepFrame(p, frame[p])
    /\ UNCHANGED <<store, lastWrite, events>>

\* callback dispatches a follow event to handle_follow (lines 264-270)
ReceiveFollow(p) ==
    /\ FirstFree(p)
    /\ events < MaxEvents
    /\ \E u \in Senders :
          /\ frame' = StepFrame(p, NewFrame(u, <<>>))
          /\ obs' = BeginObs(p, u, "follow", "none")
    /\ pc' = StepPc(p, "welcome")
    /\ events' = events + 1
    /\ UNCHANGED <<store, lastWrite>>

\* handle_follow, lines 274-282: the welcome reply; a failure is re-raised
FollowReply(p) ==
    /\ pc[p] = "welcome"
    /\ \/ /\ obs' = StepObs(p, [obs[p] EXCEPT !.nReplies = @ + 1, !.delivered = WELCOME_TEXT])
          /\ pc' = StepPc(p, "done")
       \/ /\ obs' = StepObs(p, [obs[p] EXCEPT !.nReplies = @ + 1])
          /\ pc' = StepPc(p, "raised")
    /\ frame' = StepFrame(p, frame[p])
    /\ UNCHANGED <<store, lastWrite, events>>

\* callback dispatches an unfollow event to handle_unfollow, which only reads
\* the user id (lines 286-287)
ReceiveUnfollow(p) ==
    /\ FirstFree(p)
    /\ events < MaxEvents
    /\ \E u \in Senders :
          /\ frame' = StepFrame(p, NewFrame(u, <<>>))
          /\ obs' = BeginObs(p, u, "unfollow", "none")
    /\ pc' = StepPc(p, "done")
    /\ events' = events + 1
    /\ UNCHANGED <<store, lastWrite>>

Next ==
    \E p \in Procs :
        \/ ReceiveMessage(p)
        \/ ResetCall(p)
        \/ Fetch(p)
        \/ Heal(p)
        \/ Generate(p)
        \/ Save(p)
        \/ Reply(p)
        \/ ReceiveFollow(p)
        \/ FollowReply(p)
        \/ ReceiveUnfollow(p)

Spec == Init /\ [][Next]_vars

\* the entry of handle_message alone, on more texts
DispatchNext == \E p \in Procs : DispatchMessage(p)

SpecDispatch == Init /\ [][DispatchNext]_vars

----------------------------------------------------------------------------
(* Properties *)

\* the value of the messages field of user u's document
StoredValue(u) == DictGet(store[u], "messages", ListValue(<<>>))

\* the history that a document holds for the program: its messages list, and
\* none when the document or the field is absent or the value is no list
HistoryIn(doc) ==
    IF doc.exists /\ "messages" \in DOMAIN doc.fields /\ IsList(doc.fields["messages"])
    THEN doc.fields["messages"].items
    ELSE <<>>

Returned(p) == pc[p] \in {"done", "raised"}

\* C1: once the program has written a user's document (a save or a reset,
\* by any invocation, in any interleaving), the messages field of that
\* document is a list of at most 2 * MAX_HISTORY_PAIRS entries.
C1_StoredLengthBounded ==
    \A u \in Users :
        lastWrite[u] # "none" =>
            /\ store[u].exists
            /\ "messages" \in DOMAIN store[u].fields
            /\ IsList(store[u].fields["messages"])
            /\ Len(store[u].fields["messages"].items) <= 2 * MAX_HISTORY_PAIRS

\* C1 witness: a save of a history of more than 20 entries has just left
\* exactly 20 entries in the document.
C1_Witness ==
    \E p \in Procs :
        /\ pc[p] = "reply"
        /\ obs[p].nSaves = 1
        /\ Len(frame[p].history) > 2 * MAX_HISTORY_PAIRS
        /\ lastWrite[frame[p].user_id] = "save"
        /\ Len(HistoryIn(store[frame[p].user_id])) = 2 * MAX_HISTORY_PAIRS

\* C2 (as claimed): a conversation turn whose completion call failed makes no
\* save call, and when it has returned, with no other invocation of the same
\* user in flight during it, the stored history is the one from before it.
C2_FailedCompletionNotRecorded ==
    \A p \in Procs :
        ConversationTurn(p) /\ CompletionFailed(obs[p].gen) =>
            /\ obs[p].nSaves = 0
            /\ Returned(p) /\ ~obs[p].overlap =>
                  HistoryIn(store[frame[p].user_id]) = HistoryIn(obs[p].before)

\* C3 (as claimed): a text message event whose handler has returned has had
\* exactly one reply_message call.
C3_ExactlyOneReply ==
    \A p \in Procs :
        obs[p].kind = "message" /\ Returned(p) => obs[p].nReplies = 1

\* C4 (as claimed): a conversation turn reads the user's document exactly
\* once and calls a store write at most once.
C4_OneReadAtMostOneWrite ==
    \A p \in Procs :
        ConversationTurn(p) =>
            /\ obs[p].nReads <= 1
            /\ pc[p] # "fetch" => obs[p].nReads = 1
            /\ obs[p].nResets + obs[p].nSaves <= 1

\* C4 (amended): a conversation turn reads the user's document exactly once;
\* it calls a store write at most once when the document is absent, holds a
\* list or cannot be read, and at most twice when the messages value is no
\* list: one reset by get_conversation_history, then at most one save.
C4_OneReadWritesByStoredValue ==
    \A p \in Procs :
        ConversationTurn(p) =>
            /\ obs[p].nReads <= 1
            /\ pc[p] # "fetch" => obs[p].nReads = 1
            /\ obs[p].nSaves <= 1
            /\ obs[p].nResets <= 1
            /\ obs[p].nResets = 1 => obs[p].read = "malformed"
            /\ obs[p].nWrites <= obs[p].nResets + obs[p].nSaves

\* C4 witness: a turn that found a messages value that is no list has
\* returned after two store writes.
C4_Witness ==
    \E p \in Procs :
        /\ ConversationTurn(p)
        /\ pc[p] = "done"
        /\ obs[p].read = "malformed"
        /\ obs[p].nReads = 1
        /\ obs[p].nWrites = 2

\* C5 (as claimed): handle_message never terminates with an exception.
C5_NeverRaises ==
    \A p \in Procs : obs[p].kind = "message" => pc[p] # "raised"

\* result holds exactly the last n entries of full, in their order; all of
\* full when it has at most n
IsLastOf(result, full, n) ==
    /\ Len(result) = (IF Len(full) <= n THEN Len(full) ELSE n)
    /\ \A i \in 1..Len(result) : result[i] = full[Len(full) - Len(result) + i]

\* C6: a read of a user's history that follows a successful
\* reset_conversation_history of that user, with no other write to the
\* document in between, returns the empty sequence, whatever the document
\* held before the reset.
C6_FetchAfterResetEmpty ==
    \A p \in Procs :
        ConversationTurn(p) /\ obs[p].afterReset /\ pc[p] \notin {"fetch", "heal"} =>
            /\ obs[p].fetched = <<>>
            /\ obs[p].read \in {"list", "failed"}
            /\ Len(frame[p].history) \in {1, 2}

\* C6 witness: a turn that started while the document held 20 entries has
\* read it right after a reset and got the empty sequence.
C6_Witness ==
    \E p \in Procs :
        /\ ConversationTurn(p)
        /\ pc[p] = "generate"
        /\ obs[p].afterReset
        /\ obs[p].read = "list"
        /\ Len(HistoryIn(obs[p].before)) = 2 * MAX_HISTORY_PAIRS
        /\ obs[p].fetched = <<>>

\* C7: the read of a document whose messages list is H returns, and a
\* successful save of a history H stores, exactly the last
\* 2 * MAX_HISTORY_PAIRS entries of H in their order, and H itself when it
\* has at most that many.
C7_TruncationKeepsNewest ==
    [][\A p \in Procs :
          /\ (pc[p] = "fetch" /\ pc'[p] = "generate" /\ obs'[p].read = "list") =>
                IsLastOf(obs'[p].fetched,
                         StoredValue(frame[p].user_id).items, 2 * MAX_HISTORY_PAIRS)
          /\ (pc[p] = "save" /\ pc'[p] = "reply") =>
                /\ IsList(DictGet(store'[frame[p].user_id], "messages", NotAList))
                /\ IsLastOf(DictGet(store'[frame[p].user_id], "messages", NotAList).items,
                            frame[p].history, 2 * MAX_HISTORY_PAIRS)]_vars

\* C7 witness: a document of 22 entries was read as its last 20, and the
\* 22 entries the turn made of them were saved as their last 20.
C7_Witness ==
    \E p \in Procs :
        /\ pc[p] = "reply"
        /\ obs[p].nSaves = 1
        /\ ~obs[p].overlap
        /\ Len(HistoryIn(obs[p].before)) = 2 * MAX_HISTORY_PAIRS + 2
        /\ Len(obs[p].fetched) = 2 * MAX_HISTORY_PAIRS
        /\ obs[p].fetched[1] = OldMessage(3)
        /\ Len(frame[p].history) = 2 * MAX_HISTORY_PAIRS + 2
        /\ Len(HistoryIn(store[frame[p].user_id])) = 2 * MAX_HISTORY_PAIRS
        /\ HistoryIn(store[frame[p].user_id])[1] = OldMessage(5)

\* the text the completion API returns in the model, stripped
OkText == <<"O", "k">>

\* C8: a conversation turn with no other invocation of the same user in
\* flight during it, whose completion succeeded with text r and whose save
\* succeeded, leaves as stored history the last 2 * MAX_HISTORY_PAIRS entries
\* of H ++ [{user, m}, {assistant, r}], H being the history it fetched, and
\* replies r: [{user, m}, {assistant, r}] from an empty H, and from an H of
\* 2 * MAX_HISTORY_PAIRS entries the same length, without the oldest pair.
C8_TurnAppendsPair ==
    \A p \in Procs :
        ( /\ ConversationTurn(p)
          /\ pc[p] \in {"reply", "done"}
          /\ obs[p].gen = "ok"
          /\ obs[p].nSaves = 1
          /\ ~obs[p].overlap ) =>
            LET H == obs[p].fetched
                m == frame[p].user_message_text
                pair == <<[role |-> "user", content |-> m],
                          [role |-> "assistant", content |-> OkText]>>
                stored == HistoryIn(store[frame[p].user_id])
            IN  /\ IsList(StoredValue(frame[p].user_id))
                /\ IsLastOf(stored, H \o pair, 2 * MAX_HISTORY_PAIRS)
                /\ H = <<>> => stored = pair
                /\ Len(H) = 2 * MAX_HISTORY_PAIRS =>
                      stored = SubSeq(H, 3, Len(H)) \o pair
                /\ frame[p].reply_text = OkText
                /\ pc[p] = "done" => obs[p].delivered \in {<<>>, OkText}

\* C8 witness: such a turn on a full history has saved and is about to reply.
C8_Witness ==
    \E p \in Procs :
        /\ ConversationTurn(p)
        /\ pc[p] = "reply"
        /\ obs[p].gen = "ok"
        /\ obs[p].nSaves = 1
        /\ ~obs[p].overlap
        /\ obs[p].fetched = OldHistory(2 * MAX_HISTORY_PAIRS)
        /\ Len(HistoryIn(store[frame[p].user_id])) = 2 * MAX_HISTORY_PAIRS
        /\ HistoryIn(store[frame[p].user_id])[1] = OldMessage(3)

\* C9: a message that is the reset keyword, also inside whitespace, takes
\* the reset path; a turn on the reset path makes no completion call, no
\* history read and no save; once its reset has succeeded its reply text is
\* the fixed confirmation, and the stored history is empty as long as no other
\* invocation of the same user was in flight during the turn.
C9_ResetTurn ==
    \A p \in Procs :
        /\ ( /\ obs[p].kind = "message"
             /\ frame[p].user_message_text \in
                   {RESET_COMMAND, <<" ">> \o RESET_COMMAND \o <<"\n">>} ) =>
              obs[p].path = "reset"
        /\ ResetTurn(p) =>
              /\ obs[p].nCompletions = 0
              /\ obs[p].nReads = 0
              /\ obs[p].nSaves = 0
              /\ obs[p].prompt = <<>>
              /\ pc[p] \in {"reset", "reply", "done", "raised"}
              /\ pc[p] \in {"reply", "done"} =>
                    /\ frame[p].reply_text = RESET_DONE_TEXT
                    /\ obs[p].nResets = 1
                    /\ obs[p].nWrites = 1
              /\ pc[p] = "done" =>
                    /\ obs[p].nReplies = 1
                    /\ obs[p].delivered \in {<<>>, RESET_DONE_TEXT}
              /\ (pc[p] \in {"reply", "done"} /\ ~obs[p].overlap) =>
                    StoredValue(frame[p].user_id) = ListValue(<<>>)

\* C9 witness: the keyword inside whitespace has emptied a full history and
\* the confirmation has been sent.
C9_Witness ==
    \E p \in Procs :
        /\ ResetTurn(p)
        /\ pc[p] = "done"
        /\ frame[p].user_message_text # RESET_COMMAND
        /\ ~obs[p].overlap
        /\ Len(HistoryIn(obs[p].before)) = 2 * MAX_HISTORY_PAIRS
        /\ HistoryIn(store[frame[p].user_id]) = <<>>
        /\ obs[p].delivered = RESET_DONE_TEXT

\* C10: no lock or transaction orders the turns of one user: a successful
\* save stores what the saving turn computed from its own fetch, the last
\* 2 * MAX_HISTORY_PAIRS entries of fetched ++ [user turn, assistant turn],
\* whatever other invocations have written since that fetch (last writer
\* wins).
C10_LastWriterWins ==
    [][\A p \in Procs :
          (pc[p] = "save" /\ pc'[p] = "reply") =>
              LET u == frame[p].user_id
                  mine == obs[p].fetched \o
                          <<[role |-> "user", content |-> frame[p].user_message_text],
                            [role |-> "assistant", content |-> frame[p].ai_response]>>
              IN  IsLastOf(HistoryIn(store'[u]), mine, 2 * MAX_HISTORY_PAIRS)]_vars

\* C10 witness (the lost update): two turns of one user both fetched the
\* same empty history, both completions and both saves succeeded, and the
\* stored history holds one user/assistant pair, not two.
C10_Witness ==
    \E p, q \in Procs :
        /\ p # q
        /\ frame[p].user_id = frame[q].user_id
        /\ ConversationTurn(p) /\ ConversationTurn(q)
        /\ pc[p] = "reply" /\ pc[q] = "reply"
        /\ obs[p].gen = "ok" /\ obs[q].gen = "ok"
        /\ obs[p].read = "list" /\ obs[q].read = "list"
        /\ obs[p].fetched = <<>> /\ obs[q].fetched = <<>>
        /\ obs[p].nSaves = 1 /\ obs[q].nSaves = 1
        /\ obs[p].nWrites = 1 /\ obs[q].nWrites = 1
        /\ HistoryIn(store[frame[p].user_id]) =
              <<[role |-> "user", content |-> frame[p].user_message_text],
                [role |-> "assistant", content |-> OkText]>>

\* C11: get_conversation_history never raises to handle_message: a
\* conversation turn raises only at or after its completion call, and after a
\* failed document read, or a failed reset of a value that is no list, the
\* turn goes on to the completion call with the history [user turn] alone.
C11_FetchNeverRaises ==
    \A p \in Procs :
        ConversationTurn(p) =>
            /\ pc[p] = "raised" => obs[p].nCompletions = 1
            /\ (pc[p] \notin {"fetch", "heal"} /\ obs[p].read \in {"failed", "malformed"}) =>
                  /\ obs[p].fetched = <<>>
                  /\ obs[p].nCompletions = 0 =>
                        /\ pc[p] = "generate"
                        /\ frame[p].history =
                              <<[role |-> "user", content |-> frame[p].user_message_text]>>

\* C11 witness: the reset of a value that is no list has failed, and the turn
\* is at its completion call with the user turn as its whole history.
C11_Witness ==
    \E p \in Procs :
        /\ ConversationTurn(p)
        /\ pc[p] = "generate"
        /\ obs[p].read = "malformed"
        /\ obs[p].nResets = 1
        /\ obs[p].nWrites = 0
        /\ ~IsList(StoredValue(frame[p].user_id))
        /\ Len(frame[p].history) = 1

\* C12: a read that finds a messages value that is no list goes on to the
\* reset; the reset returns [] and, when its write succeeds, leaves the
\* messages value equal to the empty list.  A read that finds no document
\* returns [] and leaves the user without a document.
C12_SelfHealing ==
    [][\A p \in Procs :
          LET u == frame[p].user_id
          IN  /\ (pc[p] = "fetch" /\ pc'[p] # "fetch" /\ obs'[p].read = "malformed") =>
                    pc'[p] = "heal" /\ store'[u] = store[u]
              /\ (pc[p] = "heal" /\ pc'[p] # "heal") =>
                    /\ pc'[p] = "generate"
                    /\ obs'[p].fetched = <<>>
                    /\ obs'[p].nWrites = obs[p].nWrites + 1 =>
                          /\ store'[u].exists
                          /\ "messages" \in DOMAIN store'[u].fields
                          /\ store'[u].fields["messages"] = ListValue(<<>>)
              /\ (pc[p] = "fetch" /\ pc'[p] # "fetch" /\ obs'[p].read = "absent") =>
                    /\ pc'[p] = "generate"
                    /\ obs'[p].fetched = <<>>
                    /\ obs'[p].nWrites = 0
                    /\ ~store'[u].exists]_vars

\* C12 witness: a document that held a value that is no list holds the empty
\* list after the read of a turn, which got [].
C12_Witness ==
    \E p \in Procs :
        /\ ConversationTurn(p)
        /\ pc[p] = "generate"
        /\ obs[p].read = "malformed"
        /\ obs[p].nWrites = 1
        /\ obs[p].before = DocWith(NotAList)
        /\ obs[p].fetched = <<>>
        /\ store[frame[p].user_id] = DocWith(ListValue(<<>>))

\* C13 (as claimed): get_openai_response never raises to handle_message, so a
\* conversation turn raises only from its save call, and a failed completion
\* call leaves a non-empty text in ai_response.
C13_CompletionNeverRaises ==
    \A p \in Procs :
        ConversationTurn(p) =>
            /\ pc[p] = "raised" => obs[p].nSaves = 1
            /\ (CompletionFailed(obs[p].gen) /\ pc[p] # "raised") =>
                  frame[p].ai_response # <<>>

\* C14 (as claimed): a conversation turn whose completion text is empty after
\* stripping makes no store write.
C14_BlankMakesNoWrite ==
    \A p \in Procs :
        (ConversationTurn(p) /\ obs[p].gen = "ok" /\ frame[p].ai_response = <<>>) =>
            obs[p].nWrites = 0

\* C14 (amended): a conversation turn whose completion text is empty after
\* stripping replies with the fixed "cannot respond" text and makes no save
\* call; its only possible write is the reset of a stored value that was no
\* list, made by the read, and with no other invocation of the user in flight
\* the stored history is the one from before the turn.
C14_BlankSkipsSave ==
    \A p \in Procs :
        (ConversationTurn(p) /\ obs[p].gen = "ok" /\ frame[p].ai_response = <<>>) =>
            LET u == frame[p].user_id
            IN  /\ pc[p] \in {"reply", "done"}
                /\ frame[p].reply_text = CANNOT_RESPOND_TEXT
                /\ frame[p].history =
                      obs[p].fetched \o <<Message("user", frame[p].user_message_text)>>
                /\ obs[p].nSaves = 0
                /\ obs[p].nWrites <= obs[p].nResets
                /\ obs[p].nWrites > 0 => obs[p].read = "malformed" /\ obs[p].nWrites = 1
                /\ ~obs[p].overlap =>
                      HistoryIn(store[u]) = HistoryIn(obs[p].before)
                /\ pc[p] = "done" =>
                      /\ obs[p].nReplies = 1
                      /\ obs[p].delivered \in {<<>>, CANNOT_RESPOND_TEXT}

\* C14 witness: a turn on a full stored history got a blank completion text,
\* delivered the "cannot respond" text and left the document as it was.
C14_Witness ==
    \E p \in Procs :
        /\ ConversationTurn(p)
        /\ pc[p] = "done"
        /\ obs[p].gen = "ok"
        /\ frame[p].ai_response = <<>>
        /\ ~obs[p].overlap
        /\ obs[p].delivered = CANNOT_RESPOND_TEXT
        /\ Len(HistoryIn(obs[p].before)) = 2 * MAX_HISTORY_PAIRS
        /\ store[frame[p].user_id] = obs[p].before

\* C15: every step keeps each document that exists, keeps the value of every
\* field of it other than messages, and adds no field other than messages.
C15_OnlyMessagesChanges ==
    [][\A u \in Users :
          /\ store[u].exists => store'[u].exists
          /\ \A k \in DOMAIN store[u].fields \ {"messages"} :
                k \in DOMAIN store'[u].fields /\ store'[u].fields[k] = store[u].fields[k]
          /\ DOMAIN store'[u].fields \subseteq DOMAIN store[u].fields \cup {"messages"}]_vars

\* C15 witness: a document with another field has been reset and then saved
\* by a turn, and still holds the other field with its value.
C15_Witness ==
    \E p \in Procs :
        LET u == frame[p].user_id
        IN  /\ ConversationTurn(p)
            /\ pc[p] = "reply"
            /\ obs[p].nSaves = 1
            /\ obs[p].afterReset
            /\ lastWrite[u] = "save"
            /\ DOMAIN store[u].fields = {"messages", "profile"}
            /\ store[u].fields["profile"] = OtherField
            /\ Len(HistoryIn(store[u])) = 2

\* text is the keyword, up to the case of its letters, between two runs of
\* whitespace
IsPaddedKeyword(text) ==
    \E a, b \in 0..Len(text) :
        /\ a + Len(RESET_COMMAND) + b = Len(text)
        /\ \A i \in 1..a : text[i] \in Whitespace
        /\ \A i \in 1..b : text[Len(text) - b + i] \in Whitespace
        /\ \A i \in 1..Len(RESET_COMMAND) :
              LowerChar(text[a + i]) = LowerChar(RESET_COMMAND[i])

\* text holds the keyword somewhere
HoldsKeyword(text) ==
    \E a \in 0..Len(text) :
        /\ a + Len(RESET_COMMAND) <= Len(text)
        /\ SubSeq(text, a + 1, a + Len(RESET_COMMAND)) = RESET_COMMAND

\* C16: handle_message takes the reset path exactly when its text is the
\* keyword between surrounding whitespace; a text that holds the keyword with
\* other text before or after it takes the conversation path.
C16_ResetIffWholeKeyword ==
    \A p \in Procs :
        obs[p].kind = "message" =>
            LET text == frame[p].user_message_text
            IN  /\ obs[p].path = "reset" <=> IsPaddedKeyword(text)
                /\ pc[p] = "reset" => IsPaddedKeyword(text)
                /\ pc[p] = "fetch" => ~IsPaddedKeyword(text)

\* C16 witness: one invocation is on the reset path with the keyword inside
\* whitespace, another on the conversation path with a text that holds the
\* keyword after other text.
C16_Witness ==
    \E p, q \in Procs :
        /\ pc[p] = "reset"
        /\ frame[p].user_message_text = <<"\n", " ", "ri", "se", "tsu", "to", " ">>
        /\ pc[q] = "fetch"
        /\ HoldsKeyword(frame[q].user_message_text)
        /\ frame[q].user_message_text[1] = "!"

\* C17 (as claimed): the history handed to get_openai_response, the system
\* turn not counted, has at most 2 * MAX_HISTORY_PAIRS entries.
C17_PromptHistoryBounded ==
    \A p \in Procs :
        (ConversationTurn(p) /\ obs[p].nCompletions = 1) =>
            Len(obs[p].prompt) - 1 <= 2 * MAX_HISTORY_PAIRS

\* C17 (amended): the history is cut to its last 2 * MAX_HISTORY_PAIRS entries
\* by the read and by the save only.  The messages of the completion call are
\* the system turn, the history the read returned (at most
\* 2 * MAX_HISTORY_PAIRS entries) and the user turn: at most
\* 2 * MAX_HISTORY_PAIRS + 1 entries after the system turn.
C17_PromptIsFetchedPlusUser ==
    \A p \in Procs :
        (ConversationTurn(p) /\ obs[p].nCompletions = 1) =>
            /\ Len(obs[p].fetched) <= 2 * MAX_HISTORY_PAIRS
            /\ obs[p].prompt =
                  <<Message("system", DEFAULT_SYSTEM_PROMPT)>> \o obs[p].fetched
                      \o <<Message("user", frame[p].user_message_text)>>
            /\ Len(obs[p].prompt) - 1 <= 2 * MAX_HISTORY_PAIRS + 1

\* C17 witness: a turn whose read returned a history at the bound has made
\* its completion call with 2 * MAX_HISTORY_PAIRS + 1 entries after the
\* system turn.
C17_Witness ==
    \E p \in Procs :
        /\ ConversationTurn(p)
        /\ obs[p].nCompletions = 1
        /\ Len(obs[p].fetched) = 2 * MAX_HISTORY_PAIRS
        /\ Len(obs[p].prompt) = 2 * MAX_HISTORY_PAIRS + 2
        /\ obs[p].prompt[2] = obs[p].fetched[1]
        /\ obs[p].prompt[Len(obs[p].prompt)].role = "user"

\* a history of even length whose turns are user, assistant, user, ...
Alternates(history) ==
    /\ Len(history) % 2 = 0
    /\ \A i \in 1..Len(history) :
          history[i].role = (IF i % 2 = 1 THEN "user" ELSE "assistant")

\* C18: every stored history has even length and alternates user,
\* assistant, ..., beginning with a user turn; no stored turn is a system
\* turn.  (The stores at the start hold no history, an empty one, or one that
\* alternates, as turns from an empty store leave it.)
C18_StoredAlternates ==
    \A u \in Users :
        /\ Alternates(HistoryIn(store[u]))
        /\ \A i \in 1..Len(HistoryIn(store[u])) : HistoryIn(store[u])[i].role # "system"

\* C18 witness: two turns of a user whose document was absent or empty have
\* been saved one after the other, and four turns are stored.
C18_Witness ==
    \E p \in Procs :
        LET u == frame[p].user_id
            h == HistoryIn(store[u])
        IN  /\ ConversationTurn(p)
            /\ pc[p] = "reply"
            /\ obs[p].nSaves = 1
            /\ obs[p].nWrites = 1
            /\ lastWrite[u] = "save"
            /\ Len(obs[p].fetched) = 2
            /\ Len(h) = 4
            /\ h[3] = Message("user", frame[p].user_message_text)
            /\ h[4] = Message("assistant", frame[p].ai_response)

\* C18 witness of the cut: a save on a full history dropped the oldest pair
\* and the stored history still begins with a user turn.
C18_WitnessCut ==
    \E p \in Procs :
        LET h == HistoryIn(store[frame[p].user_id])
        IN  /\ ConversationTurn(p)
            /\ pc[p] = "reply"
            /\ obs[p].nSaves = 1
            /\ Len(frame[p].history) = 2 * MAX_HISTORY_PAIRS + 2
            /\ Len(h) = 2 * MAX_HISTORY_PAIRS
            /\ h[1] = frame[p].history[3]
            /\ h[1].role = "user"

\* history holds a turn of the history stored at the start
HoldsOldTurn(history) ==
    \E i \in 1..Len(history), n \in 1..(2 * MAX_HISTORY_PAIRS + 2) : history[i] = OldMessage(n)

\* C19: a conversation turn that reads after a reset of its user, with no
\* other invocation of the user in flight during it, gets the empty history,
\* sends the system turn and its own user turn as the completion prompt, and
\* leaves stored either nothing or its own pair: no turn from before the
\* reset.  (The overlapping case is the reachable state C19_Witness.)
C19_ResetFinalWithoutOverlap ==
    \A p \in Procs :
        (/\ ConversationTurn(p)
         /\ obs[p].afterReset
         /\ ~obs[p].overlap
         /\ pc[p] \notin {"fetch", "heal"}) =>
            LET u == frame[p].user_id
                user == Message("user", frame[p].user_message_text)
            IN  /\ obs[p].fetched = <<>>
                /\ ~HoldsOldTurn(frame[p].history)
                /\ obs[p].nCompletions = 1 =>
                      obs[p].prompt = <<Message("system", DEFAULT_SYSTEM_PROMPT), user>>
                /\ ~HoldsOldTurn(HistoryIn(store[u]))
                /\ HistoryIn(store[u]) \in
                      {<<>>, <<user, Message("assistant", frame[p].ai_response)>>}

\* C19 witness: turn A read a full history; during it a reset turn of the
\* same user emptied the document and delivered its confirmation; A then
\* saved, and the stored history begins with turns from before the reset.
C19_Witness ==
    \E p \in Procs :
        LET u == frame[p].user_id
            h == HistoryIn(store[u])
        IN  /\ ConversationTurn(p)
            /\ pc[p] = "reply"
            /\ obs[p].resetDuring
            /\ obs[p].fetched = OldHistory(2 * MAX_HISTORY_PAIRS)
            /\ obs[p].nSaves = 1
            /\ obs[p].nWrites = 1
            /\ lastWrite[u] = "save"
            /\ h = SubSeq(OldHistory(2 * MAX_HISTORY_PAIRS), 3, 2 * MAX_HISTORY_PAIRS)
                      \o <<Message("user", frame[p].user_message_text),
                           Message("assistant", frame[p].ai_response)>>
            /\ HoldsOldTurn(h)

\* C20: the save of a turn whose document read failed leaves exactly the
\* pair of the turn stored, [user turn, assistant turn], whatever the
\* document held.
C20_FailedReadOverwrites ==
    [][\A p \in Procs :
          (/\ ConversationTurn(p)
           /\ obs[p].read = "failed"
           /\ pc[p] = "save"
           /\ pc'[p] = "reply") =>
              HistoryIn(store'[frame[p].user_id]) =
                  <<Message("user", frame[p].user_message_text),
                    Message("assistant", frame[p].ai_response)>>]_vars

\* C20 witness: the document held a full history, the read of the turn
\* failed, its completion call and its save succeeded, and the document holds
\* the two turns of the pair alone.
C20_Witness ==
    \E p \in Procs :
        LET u == frame[p].user_id
        IN  /\ ConversationTurn(p)
            /\ pc[p] = "reply"
            /\ obs[p].read = "failed"
            /\ obs[p].gen = "ok"
            /\ obs[p].nSaves = 1
            /\ obs[p].nWrites = 1
            /\ ~obs[p].overlap
            /\ HistoryIn(obs[p].before) = OldHistory(2 * MAX_HISTORY_PAIRS)
            /\ Len(HistoryIn(store[u])) = 2
            /\ HistoryIn(store[u])[2] = Message("assistant", OkText)

====
